---- MODULE Spec2Model ----
(***************************************************************************)
(* Model of cargo's IPFS registry backend                                  *)
(* (src/cargo/sources/registry/ipfs.rs): IPFSRegistry::config,             *)
(* IPFSRegistry::update_index and IPFSRegistry::download, run by several   *)
(* independent cargo processes that share one on-disk cache directory.     *)
(*                                                                         *)
(* Every fallible primitive the code calls (open_ro, metadata, open_rw,    *)
(* shell status, read, seek, spawning ipget) may fail; `raised` records    *)
(* which ones did in the current call, `calls` records the primitives the  *)
(* call has invoked, in order.                                             *)
(***************************************************************************)
EXTENDS Integers, Sequences, FiniteSets, TLC

\* ------------------------------------------------------------------ bounds
MaxLen == 2         \* longest file the fetcher can leave, in bytes
BufSize == 2        \* size of the read buffer (64 * 1024 in the source)

Procs == {"p1", "p2"}
Byte == {0, 1}
Contents == UNION {[1..n -> Byte] : n \in 0..MaxLen}

\* ------------------------------------------------------------- data model
Pkgs == {[name |-> "a", version |-> "1"]}
NoPkg == [name |-> "", version |-> ""]

\* format!("{}-{}.crate", pkg.name(), pkg.version())
Filename(k) == k.name \o "-" \o k.version \o ".crate"

\* Display of a PackageId in status and error messages
Display(k) == k.name \o " v" \o k.version

\* Path::join
Join(root, rel) == root \o "/" \o rel

Slots == {Filename(k) : k \in Pkgs}

\* One primitive invoked by a call: its name and up to two arguments.
Ev(o, a, b) == [op |-> o, a |-> a, b |-> b]

\* Command::new("ipget").arg(ipfs_path.join(rel)).args(&["-o", local_path])
IpgetEv(rel) == Ev("ipget", Join("ipfs_path", rel), Join("local_root", rel))

\* ---------------------------------------------------------------- Sha256
\* A stand-in for SHA-256 over the bounded contents: an accumulator that
\* is fed chunk by chunk and is injective on the byte strings of the model.
HashMod == 256

Sha256New == 0

RECURSIVE Sha256Update(_, _)
Sha256Update(h, bytes) ==
    IF bytes = <<>> THEN h
    ELSE Sha256Update((h * 3 + Head(bytes) + 1) % HashMod, Tail(bytes))

\* finish(): the digest bytes (one byte in the model)
Sha256Finish(h) == <<(h * 37 + 11) % HashMod>>

HexDigits == <<"0", "1", "2", "3", "4", "5", "6", "7",
               "8", "9", "a", "b", "c", "d", "e", "f">>

\* hex::ToHex: two lower-case hex digits per byte
RECURSIVE ToHex(_)
ToHex(bytes) ==
    IF bytes = <<>> THEN ""
    ELSE HexDigits[(Head(bytes) \div 16) + 1] \o HexDigits[(Head(bytes) % 16) + 1]
         \o ToHex(Tail(bytes))

\* The digest of a whole byte string, as a hex string
HexDigest(bytes) == ToHex(Sha256Finish(Sha256Update(Sha256New, bytes)))

\* Expected checksums a caller may pass: the digest of the empty byte string
\* and the digest of a file of MaxLen bytes
Checksums == {HexDigest(<<>>), HexDigest([i \in 1..MaxLen |-> 0])}

\* ------------------------------------------------------------------ state
VARIABLES
    file,      \* file[s]: the cache slot s on disk: [exists, data]
    index,     \* state of <cache root>/index
    proc,      \* proc[p]: the call process p is executing
    corrupt    \* corrupt[s]: bytes in s when a call failed its checksum

vars == <<file, index, proc, corrupt>>

NoFile == [exists |-> FALSE, data |-> <<>>]
NoBytes == [some |-> FALSE, data |-> <<>>]
Some(b) == [some |-> TRUE, data |-> b]
NoResult == [kind |-> "none", about |-> ""]
Ok == [kind |-> "ok", about |-> ""]
Err(kind, about) == [kind |-> kind, about |-> about]

Idle ==
    [pc |-> "idle", op |-> "none", pkg |-> NoPkg, checksum |-> "",
     lock |-> "none", pos |-> 0, state |-> Sha256New, result |-> NoResult,
     calls |-> <<>>, raised |-> {}, fed |-> <<>>,
     start |-> "none", probe |-> "none", recheck |-> "none",
     fetched |-> NoBytes, exit |-> "none", late |-> FALSE, idx0 |-> "none"]

Init ==
    /\ file = [s \in Slots |-> NoFile]
    /\ index = "absent"
    /\ proc = [p \in Procs |-> Idle]
    /\ corrupt = [s \in Slots |-> NoBytes]

IndexStates == {"absent", "wellformed", "malformed"}
ExitStatuses == {"success", "failure"}

SlotOf(p) == Filename(proc[p].pkg)

\* What a probe of slot s would find
Presence(s) ==
    IF ~file[s].exists THEN "absent"
    ELSE IF Len(file[s].data) = 0 THEN "empty" ELSE "nonempty"

\* Another process holds an exclusive lock on slot s
ExclHeld(s, p) ==
    \E q \in Procs \ {p} : proc[q].lock = "exclusive" /\ SlotOf(q) = s

\* Another process holds any lock on slot s
AnyHeld(s, p) ==
    \E q \in Procs \ {p} : proc[q].lock # "none" /\ SlotOf(q) = s

Min(a, b) == IF a < b THEN a ELSE b

\* The call of p goes on with the record r
Step(p, r) == proc' = [proc EXCEPT ![p] = r]

\* The call of p ends with result res, holding lock lk
Return(me, res, lk) == [me EXCEPT !.pc = "done", !.result = res, !.lock = lk]

\* The call of p ends with an error: `?` drops the handle, if any
Fail(me, kind, about) ==
    [Return(me, Err(kind, about), "none") EXCEPT !.raised = @ \cup {kind}]

\* Variant of Config that consults the local registry for a configuration
Config_AsksLocal(p) ==
    /\ proc[p].pc = "idle"
    /\ Step(p, [Idle EXCEPT !.pc = "done", !.op = "config",
                            !.calls = <<Ev("local.config", "", "")>>,
                            !.result = [kind |-> "ok_none", about |-> ""]])
    /\ UNCHANGED <<file, index, corrupt>>

\* -------------------------------------------------------------- config()
Config(p) ==
    /\ proc[p].pc = "idle"
    /\ Step(p, [Idle EXCEPT !.pc = "done", !.op = "config",
                            !.result = [kind |-> "ok_none", about |-> ""]])
    /\ UNCHANGED <<file, index, corrupt>>

\* Variant of CallUpdateIndex that skips the fetcher when an index is present
CallUpdateIndex_SkipIfPresent(p) ==
    /\ proc[p].pc = "idle"
    /\ Step(p, [Idle EXCEPT !.pc = IF index = "absent" THEN "ui_ipget" ELSE "ui_local",
                            !.op = "update_index", !.idx0 = index])
    /\ UNCHANGED <<file, index, corrupt>>

\* -------------------------------------------------------- update_index()
CallUpdateIndex(p) ==
    /\ proc[p].pc = "idle"
    /\ Step(p, [Idle EXCEPT !.pc = "ui_ipget", !.op = "update_index",
                            !.idx0 = index])
    /\ UNCHANGED <<file, index, corrupt>>

\* Command::new("ipget")...output().expect("failed to execute process")
IndexIpget(p) ==
    LET me == proc[p]
        called == [me EXCEPT !.calls = Append(@, IpgetEv("index"))] IN
    /\ me.pc = "ui_ipget"
    /\ \E spawned \in BOOLEAN :
         Step(p, IF spawned THEN [called EXCEPT !.pc = "ui_wait"]
                 ELSE [Return(called, Err("panic", "failed to execute process"), "none")
                         EXCEPT !.raised = @ \cup {"spawn"}])
    /\ UNCHANGED <<file, index, corrupt>>

\* Variant of IndexIpgetExit that fails update_index when ipget reports a
\* failure
IndexIpgetExit_ChecksStatus(p) ==
    /\ proc[p].pc = "ui_wait"
    /\ \E st \in ExitStatuses, i \in IndexStates :
         /\ index' = i
         /\ Step(p, IF st = "failure"
                    THEN Fail([proc[p] EXCEPT !.exit = st], "fetch", "index")
                    ELSE [proc[p] EXCEPT !.pc = "ui_local", !.exit = st])
    /\ UNCHANGED <<file, corrupt>>

\* ipget exits, having left the index path in some state
IndexIpgetExit(p) ==
    /\ proc[p].pc = "ui_wait"
    /\ \E st \in ExitStatuses, i \in IndexStates :
         /\ index' = i
         /\ Step(p, [proc[p] EXCEPT !.pc = "ui_local", !.exit = st])
    /\ UNCHANGED <<file, corrupt>>

\* self.local_registry.update_index(): the result of update_index
LocalUpdateIndex(p) ==
    LET me == proc[p]
        called == [me EXCEPT !.calls = Append(@, Ev("local.update_index", "", ""))] IN
    /\ me.pc = "ui_local"
    /\ Step(p, IF index = "wellformed" THEN Return(called, Ok, "none")
               ELSE Fail(called, "local_index", "index"))
    /\ UNCHANGED <<file, index, corrupt>>

\* ------------------------------------------------------------ download()
\* download(pkg, checksum) is called; filename and path are computed
CallDownload(p) ==
    /\ proc[p].pc = "idle"
    /\ \E k \in Pkgs, c \in Checksums :
         Step(p, [Idle EXCEPT !.pc = "open_ro", !.op = "download", !.pkg = k,
                              !.checksum = c, !.start = Presence(Filename(k)),
                              !.late = corrupt[Filename(k)].some])
    /\ UNCHANGED <<file, index, corrupt>>

\* self.local_root.open_ro(path, ..): open the file read-only.  An Err is
\* not propagated: `if let Ok(dst)` falls through to open_rw.
OpenRo(p) ==
    LET me == proc[p]
        s == SlotOf(p)
        called == [me EXCEPT !.calls = Append(@, Ev("open_ro", s, s))] IN
    /\ me.pc = "open_ro"
    /\ \E fault \in BOOLEAN :
         Step(p, IF ~file[s].exists
                 THEN [called EXCEPT !.pc = "open_rw", !.probe = "absent",
                                     !.raised = @ \cup {"open_ro"}]
                 ELSE IF fault
                 THEN [called EXCEPT !.pc = "open_rw", !.probe = "error",
                                     !.raised = @ \cup {"open_ro"}]
                 ELSE [called EXCEPT !.pc = "lock_ro"])
    /\ UNCHANGED <<file, index, corrupt>>

\* open_ro, second half: block until the shared lock is granted
LockRo(p) ==
    LET me == proc[p] IN
    /\ me.pc = "lock_ro"
    /\ ~ExclHeld(SlotOf(p), p)
    /\ Step(p, [me EXCEPT !.pc = "meta_ro", !.lock = "shared"])
    /\ UNCHANGED <<file, index, corrupt>>

\* Variant of MetaRo that fetches into an empty file without open_rw
MetaRo_FetchWithoutRw(p) ==
    LET me == proc[p]
        s == SlotOf(p)
        called == [me EXCEPT !.calls = Append(@, Ev("metadata", s, ""))] IN
    /\ me.pc = "meta_ro"
    /\ \E fault \in BOOLEAN :
         Step(p, IF fault THEN Fail(called, "metadata", s)
                 ELSE IF Len(file[s].data) > 0
                 THEN Return([called EXCEPT !.probe = "nonempty"], Ok, "shared")
                 ELSE [called EXCEPT !.pc = "status_retrieving",
                                     !.probe = "empty", !.lock = "none"])
    /\ UNCHANGED <<file, index, corrupt>>

\* Variant of MetaRo that keeps the probe's handle alive across open_rw
MetaRo_KeepsHandle(p) ==
    LET me == proc[p]
        s == SlotOf(p)
        called == [me EXCEPT !.calls = Append(@, Ev("metadata", s, ""))] IN
    /\ me.pc = "meta_ro"
    /\ \E fault \in BOOLEAN :
         Step(p, IF fault THEN Fail(called, "metadata", s)
                 ELSE IF Len(file[s].data) > 0
                 THEN Return([called EXCEPT !.probe = "nonempty"], Ok, "shared")
                 ELSE [called EXCEPT !.pc = "open_rw", !.probe = "empty"])
    /\ UNCHANGED <<file, index, corrupt>>

\* Variant of MetaRo that re-verifies a cached file instead of returning it
MetaRo_Reverify(p) ==
    LET me == proc[p]
        s == SlotOf(p)
        called == [me EXCEPT !.calls = Append(@, Ev("metadata", s, ""))] IN
    /\ me.pc = "meta_ro"
    /\ \E fault \in BOOLEAN :
         Step(p, IF fault THEN Fail(called, "metadata", s)
                 ELSE IF Len(file[s].data) > 0
                 THEN [called EXCEPT !.pc = "read", !.probe = "nonempty"]
                 ELSE [called EXCEPT !.pc = "open_rw", !.probe = "empty",
                                     !.lock = "none"])
    /\ UNCHANGED <<file, index, corrupt>>

\* Variant of MetaRo that ignores a failed metadata query (if let Ok(meta))
MetaRo_IgnoresError(p) ==
    LET me == proc[p]
        s == SlotOf(p)
        called == [me EXCEPT !.calls = Append(@, Ev("metadata", s, ""))] IN
    /\ me.pc = "meta_ro"
    /\ \E fault \in BOOLEAN :
         Step(p, IF fault
                 THEN [called EXCEPT !.pc = "open_rw", !.probe = "error",
                                     !.lock = "none",
                                     !.raised = @ \cup {"metadata"}]
                 ELSE IF Len(file[s].data) > 0
                 THEN Return([called EXCEPT !.probe = "nonempty"], Ok, "shared")
                 ELSE [called EXCEPT !.pc = "open_rw", !.probe = "empty",
                                     !.lock = "none"])
    /\ UNCHANGED <<file, index, corrupt>>

\* let meta = dst.file().metadata()?; if meta.len() > 0 { return Ok(dst) }
\* Otherwise dst is dropped at the end of the `if let` and its lock released.
MetaRo(p) ==
    LET me == proc[p]
        s == SlotOf(p)
        called == [me EXCEPT !.calls = Append(@, Ev("metadata", s, ""))] IN
    /\ me.pc = "meta_ro"
    /\ \E fault \in BOOLEAN :
         Step(p, IF fault THEN Fail(called, "metadata", s)
                 ELSE IF Len(file[s].data) > 0
                 THEN Return([called EXCEPT !.probe = "nonempty"], Ok, "shared")
                 ELSE [called EXCEPT !.pc = "open_rw", !.probe = "empty",
                                     !.lock = "none"])
    /\ UNCHANGED <<file, index, corrupt>>

\* Variant of OpenRw that opens with truncate(true)
OpenRw_Truncate(p) ==
    LET me == proc[p]
        s == SlotOf(p)
        called == [me EXCEPT !.calls = Append(@, Ev("open_rw", s, s))] IN
    /\ me.pc = "open_rw"
    /\ \E fault \in BOOLEAN :
         IF fault
         THEN Step(p, Fail(called, "open_rw", s)) /\ UNCHANGED file
         ELSE /\ Step(p, [called EXCEPT !.pc = "lock_rw"])
              /\ file' = [file EXCEPT ![s] = [exists |-> TRUE, data |-> <<>>]]
    /\ UNCHANGED <<index, corrupt>>

\* self.local_root.open_rw(path, ..)?: open with create(true)
OpenRw(p) ==
    LET me == proc[p]
        s == SlotOf(p)
        called == [me EXCEPT !.calls = Append(@, Ev("open_rw", s, s))] IN
    /\ me.pc = "open_rw"
    /\ \E fault \in BOOLEAN :
         IF fault
         THEN Step(p, Fail(called, "open_rw", s)) /\ UNCHANGED file
         ELSE /\ Step(p, [called EXCEPT !.pc = "lock_rw"])
              /\ file' = [file EXCEPT ![s] = [exists |-> TRUE, data |-> @.data]]
    /\ UNCHANGED <<index, corrupt>>

\* open_rw, second half: block until the exclusive lock is granted
LockRw(p) ==
    LET me == proc[p] IN
    /\ me.pc = "lock_rw"
    /\ ~AnyHeld(SlotOf(p), p)
    /\ me.lock = "none"    \* a lock held through another handle conflicts too
    /\ Step(p, [me EXCEPT !.pc = "meta_rw", !.lock = "exclusive"])
    /\ UNCHANGED <<file, index, corrupt>>

\* Variant of MetaRw that takes any existing file for a hit (len() >= 0)
MetaRw_ZeroIsHit(p) ==
    LET me == proc[p]
        s == SlotOf(p)
        called == [me EXCEPT !.calls = Append(@, Ev("metadata", s, ""))] IN
    /\ me.pc = "meta_rw"
    /\ \E fault \in BOOLEAN :
         Step(p, IF fault THEN Fail(called, "metadata", s)
                 ELSE Return([called EXCEPT !.recheck = Presence(s)], Ok, "exclusive"))
    /\ UNCHANGED <<file, index, corrupt>>

\* Variant of MetaRw without the length re-check after the read-write open
MetaRw_NoRecheck(p) ==
    LET me == proc[p]
        s == SlotOf(p)
        called == [me EXCEPT !.calls = Append(@, Ev("metadata", s, ""))] IN
    /\ me.pc = "meta_rw"
    /\ \E fault \in BOOLEAN :
         Step(p, IF fault THEN Fail(called, "metadata", s)
                 ELSE [called EXCEPT !.pc = "status_retrieving",
                                     !.recheck = Presence(s)])
    /\ UNCHANGED <<file, index, corrupt>>

\* let meta = dst.file().metadata()?; if meta.len() > 0 { return Ok(dst) }
MetaRw(p) ==
    LET me == proc[p]
        s == SlotOf(p)
        called == [me EXCEPT !.calls = Append(@, Ev("metadata", s, ""))] IN
    /\ me.pc = "meta_rw"
    /\ \E fault \in BOOLEAN :
         Step(p, IF fault THEN Fail(called, "metadata", s)
                 ELSE IF Len(file[s].data) > 0
                 THEN Return([called EXCEPT !.recheck = "nonempty"], Ok, "exclusive")
                 ELSE [called EXCEPT !.pc = "status_retrieving",
                                     !.recheck = "empty"])
    /\ UNCHANGED <<file, index, corrupt>>

\* Variant of StatusRetrieving that goes on when the message cannot be shown
StatusRetrieving_IgnoresFailure(p) ==
    LET me == proc[p]
        called == [me EXCEPT !.calls =
                     Append(@, Ev("status", "Retrieving from IPFS", Display(me.pkg)))] IN
    /\ me.pc = "status_retrieving"
    /\ \E fault \in BOOLEAN :
         Step(p, IF fault THEN [called EXCEPT !.pc = "ipget",
                                              !.raised = @ \cup {"status"}]
                 ELSE [called EXCEPT !.pc = "ipget"])
    /\ UNCHANGED <<file, index, corrupt>>

\* self.config.shell().status("Retrieving from IPFS", pkg)?
StatusRetrieving(p) ==
    LET me == proc[p]
        called == [me EXCEPT !.calls =
                     Append(@, Ev("status", "Retrieving from IPFS", Display(me.pkg)))] IN
    /\ me.pc = "status_retrieving"
    /\ \E fault \in BOOLEAN :
         Step(p, IF fault THEN Fail(called, "status", "Retrieving from IPFS")
                 ELSE [called EXCEPT !.pc = "ipget"])
    /\ UNCHANGED <<file, index, corrupt>>

\* Command::new("ipget")...output().expect("failed to execute process")
Ipget(p) ==
    LET me == proc[p]
        called == [me EXCEPT !.calls = Append(@, IpgetEv(SlotOf(p)))] IN
    /\ me.pc = "ipget"
    /\ \E spawned \in BOOLEAN :
         Step(p, IF spawned THEN [called EXCEPT !.pc = "ipget_wait"]
                 ELSE [Return(called, Err("panic", "failed to execute process"), "none")
                         EXCEPT !.raised = @ \cup {"spawn"}])
    /\ UNCHANGED <<file, index, corrupt>>

\* Variant of IpgetExit that fails the call when ipget reports a failure
IpgetExit_ChecksStatus(p) ==
    LET me == proc[p]
        s == SlotOf(p) IN
    /\ me.pc = "ipget_wait"
    /\ \E st \in ExitStatuses, b \in Contents :
         /\ file' = [file EXCEPT ![s] = [exists |-> TRUE, data |-> b]]
         /\ Step(p, IF st = "failure"
                    THEN Fail([me EXCEPT !.exit = st, !.fetched = Some(b)],
                              "fetch", s)
                    ELSE [me EXCEPT !.pc = "status_unpacking", !.exit = st,
                                    !.fetched = Some(b)])
    /\ UNCHANGED <<index, corrupt>>

\* ipget exits with some status, having left some bytes at the destination;
\* the Output is only logged with debug!
IpgetExit(p) ==
    LET me == proc[p]
        s == SlotOf(p) IN
    /\ me.pc = "ipget_wait"
    /\ \E st \in ExitStatuses, b \in Contents :
         /\ file' = [file EXCEPT ![s] = [exists |-> TRUE, data |-> b]]
         /\ Step(p, [me EXCEPT !.pc = "status_unpacking", !.exit = st,
                               !.fetched = Some(b)])
    /\ UNCHANGED <<index, corrupt>>

\* self.config.shell().status("Unpacking", pkg)?; let mut state = Sha256::new()
StatusUnpacking(p) ==
    LET me == proc[p]
        called == [me EXCEPT !.calls =
                     Append(@, Ev("status", "Unpacking", Display(me.pkg)))] IN
    /\ me.pc = "status_unpacking"
    /\ \E fault \in BOOLEAN :
         Step(p, IF fault THEN Fail(called, "status", "Unpacking")
                 ELSE [called EXCEPT !.pc = "read", !.state = Sha256New])
    /\ UNCHANGED <<file, index, corrupt>>

\* Variant of Read that takes a short read for the end of the file
Read_StopsOnShortRead(p) ==
    LET me == proc[p]
        s == SlotOf(p)
        left == Len(file[s].data) - me.pos
        called == [me EXCEPT !.calls = Append(@, Ev("read", s, ""))] IN
    /\ me.pc = "read"
    /\ \/ Step(p, Fail(called, "read", s))
       \/ /\ left = 0
          /\ Step(p, [called EXCEPT !.pc = "finish"])
       \/ \E n \in 1..Min(BufSize, left) :
            LET chunk == SubSeq(file[s].data, me.pos + 1, me.pos + n) IN
            Step(p, [called EXCEPT !.pos = @ + n,
                                   !.state = Sha256Update(@, chunk),
                                   !.fed = @ \o chunk,
                                   !.pc = IF n < BufSize THEN "finish" ELSE "read"])
    /\ UNCHANGED <<file, index, corrupt>>

\* One turn of the loop: n = dst.read(&mut buf)?; if n == 0 { break };
\* state.update(&buf[..n]).  A read may return fewer bytes than the buffer
\* holds, and returns 0 only at end of file.
Read(p) ==
    LET me == proc[p]
        s == SlotOf(p)
        left == Len(file[s].data) - me.pos
        called == [me EXCEPT !.calls = Append(@, Ev("read", s, ""))] IN
    /\ me.pc = "read"
    /\ \/ Step(p, Fail(called, "read", s))
       \/ /\ left = 0
          /\ Step(p, [called EXCEPT !.pc = "finish"])
       \/ \E n \in 1..Min(BufSize, left) :
            LET chunk == SubSeq(file[s].data, me.pos + 1, me.pos + n) IN
            Step(p, [called EXCEPT !.pos = @ + n,
                                   !.state = Sha256Update(@, chunk),
                                   !.fed = @ \o chunk])
    /\ UNCHANGED <<file, index, corrupt>>

\* Variant of Finish that does not compare the digest
Finish_NoCompare(p) ==
    /\ proc[p].pc = "finish"
    /\ Step(p, [proc[p] EXCEPT !.pc = "seek"])
    /\ UNCHANGED <<file, index, corrupt>>

\* Variant of Finish that empties the slot when the digest does not match
Finish_Cleanup(p) ==
    LET me == proc[p]
        s == SlotOf(p) IN
    /\ me.pc = "finish"
    /\ IF ToHex(Sha256Finish(me.state)) # me.checksum
       THEN /\ Step(p, Fail(me, "checksum", Display(me.pkg)))
            /\ corrupt' = [corrupt EXCEPT ![s] =
                             IF Len(file[s].data) > 0 THEN Some(file[s].data) ELSE @]
            /\ file' = [file EXCEPT ![s].data = <<>>]
       ELSE /\ Step(p, [me EXCEPT !.pc = "seek"])
            /\ UNCHANGED <<corrupt, file>>
    /\ UNCHANGED index

\* if state.finish().to_hex() != checksum { bail!(..) }
Finish(p) ==
    LET me == proc[p]
        s == SlotOf(p) IN
    /\ me.pc = "finish"
    /\ IF ToHex(Sha256Finish(me.state)) # me.checksum
       THEN /\ Step(p, Fail(me, "checksum", Display(me.pkg)))
            /\ corrupt' = [corrupt EXCEPT ![s] =
                             IF Len(file[s].data) > 0 THEN Some(file[s].data) ELSE @]
       ELSE /\ Step(p, [me EXCEPT !.pc = "seek"])
            /\ UNCHANGED corrupt
    /\ UNCHANGED <<file, index>>

\* dst.seek(SeekFrom::Start(0))?; Ok(dst)
Seek(p) ==
    LET me == proc[p]
        s == SlotOf(p)
        called == [me EXCEPT !.calls = Append(@, Ev("seek", s, ""))] IN
    /\ me.pc = "seek"
    /\ \E fault \in BOOLEAN :
         Step(p, IF fault THEN Fail(called, "seek", s)
                 ELSE Return([called EXCEPT !.pos = 0], Ok, "exclusive"))
    /\ UNCHANGED <<file, index, corrupt>>

\* The caller is done with the result; a returned FileLock is dropped
Drop(p) ==
    /\ proc[p].pc = "done"
    /\ Step(p, Idle)
    /\ UNCHANGED <<file, index, corrupt>>

\* Processes calling config() and download() on one cache directory
Next ==
    \E p \in Procs :
        \/ Config(p)
        \/ CallDownload(p) \/ OpenRo(p) \/ LockRo(p) \/ MetaRo(p)
        \/ OpenRw(p) \/ LockRw(p) \/ MetaRw(p)
        \/ StatusRetrieving(p) \/ Ipget(p) \/ IpgetExit(p)
        \/ StatusUnpacking(p) \/ Read(p) \/ Finish(p) \/ Seek(p)
        \/ Drop(p)

Spec == Init /\ [][Next]_vars

\* A step of the call of p that does not wait for a lock
Proceed(p) ==
    \/ OpenRo(p) \/ MetaRo(p) \/ OpenRw(p) \/ MetaRw(p)
    \/ StatusRetrieving(p) \/ Ipget(p) \/ IpgetExit(p)
    \/ StatusUnpacking(p) \/ Read(p) \/ Finish(p) \/ Seek(p)

\* Fair scheduling: a process that can take a step of its call takes one,
\* ipget exits, a caller drops what it was returned, and a process waiting
\* for a lock that is free again and again is granted it.
Fairness ==
    \A p \in Procs :
        /\ WF_vars(Proceed(p) \/ Drop(p))
        /\ SF_vars(LockRo(p) \/ LockRw(p))

\* What ipget leaves in the runs checked for termination: nothing, or a
\* file of MaxLen bytes
LiveContents == {<<>>, [i \in 1..MaxLen |-> 0]}

NextLive ==
    \E p \in Procs :
        \/ CallDownload(p) \/ OpenRo(p) \/ LockRo(p) \/ MetaRo(p)
        \/ OpenRw(p) \/ LockRw(p) \/ MetaRw(p)
        \/ StatusRetrieving(p) \/ Ipget(p)
        \/ IpgetExit(p) /\ proc'[p].fetched.data \in LiveContents
        \/ StatusUnpacking(p) \/ Read(p) \/ Finish(p) \/ Seek(p)
        \/ Drop(p)

SpecFair == Init /\ [][NextLive]_vars /\ Fairness

\* Processes calling config() and update_index() on one cache directory
NextIndex ==
    \E p \in Procs :
        \/ Config(p)
        \/ CallUpdateIndex(p) \/ IndexIpget(p) \/ IndexIpgetExit(p)
        \/ LocalUpdateIndex(p)
        \/ Drop(p)

SpecIndex == Init /\ [][NextIndex]_vars

\* ------------------------------------------------- the read loop alone
\* The verification loop of one download, started where `Unpacking` has
\* been shown, over every file of up to MaxFile bytes ipget can have left.
MaxFile == 4

Files == UNION {[1..n -> Byte] : n \in 0..MaxFile}

\* The call of a process that has reached the loop on an absent slot
AtLoop(k, c, b, st) ==
    LET f == Filename(k) IN
    [Idle EXCEPT !.pc = "read", !.op = "download", !.pkg = k, !.checksum = c,
                 !.lock = "exclusive", !.raised = {"open_ro"},
                 !.start = "absent", !.probe = "absent", !.recheck = "empty",
                 !.fetched = Some(b), !.exit = st,
                 !.calls = <<Ev("open_ro", f, f), Ev("open_rw", f, f),
                             Ev("metadata", f, ""),
                             Ev("status", "Retrieving from IPFS", Display(k)),
                             IpgetEv(f),
                             Ev("status", "Unpacking", Display(k))>>]

InitRead ==
    \E k \in Pkgs, c \in Checksums, b \in Files, st \in ExitStatuses,
       r \in Procs :
        /\ file = [s \in Slots |->
                     IF s = Filename(k) THEN [exists |-> TRUE, data |-> b]
                     ELSE NoFile]
        /\ index = "absent"
        /\ corrupt = [s \in Slots |-> NoBytes]
        /\ proc = [p \in Procs |-> IF p = r THEN AtLoop(k, c, b, st) ELSE Idle]

NextRead ==
    \E p \in Procs : Read(p) \/ Finish(p) \/ Seek(p) \/ Drop(p)

SpecRead == InitRead /\ [][NextRead]_vars

\* ----------------------------------------------------------------- claims
Downloading(p) == proc[p].op = "download"
Done(p) == proc[p].pc = "done"
Data(p) == file[SlotOf(p)].data

\* The call of p has invoked primitive o
Called(p, o) == \E i \in DOMAIN proc[p].calls : proc[p].calls[i].op = o

\* No primitive other than the read-only open has failed in the call of p
NoFault(p) == proc[p].raised \subseteq {"open_ro"}

\* The call of p has not touched the digest: nothing read, nothing hashed
\* and the comparison not reached
NoDigest(p) ==
    /\ ~Called(p, "read")
    /\ proc[p].state = Sha256New /\ proc[p].fed = <<>>
    /\ proc[p].pc \notin {"read", "finish", "seek"}
    /\ proc[p].result.kind # "checksum"

\* C1: a download called while the slot holds a non-empty file never
\* invokes the fetcher and never computes or compares a digest, and (unless
\* a metadata query or the read-write open fails) returns success holding
\* the file, whatever the checksum and whatever the content.
C1_CacheHit ==
    \A p \in Procs :
        Downloading(p) /\ proc[p].start = "nonempty" =>
            /\ ~Called(p, "ipget")
            /\ NoDigest(p)
            /\ Done(p) /\ NoFault(p) =>
                 proc[p].result = Ok /\ proc[p].lock # "none"

\* A cache hit on content that does not match the checksum passed
C1_Witness ==
    \E p \in Procs :
        /\ Downloading(p) /\ proc[p].start = "nonempty" /\ Done(p)
        /\ proc[p].result = Ok
        /\ HexDigest(Data(p)) # proc[p].checksum

\* C2: when the fetcher has left bytes B in the slot, the call succeeds iff
\* the hex digest of B equals the checksum (unless a status message, a read
\* or the seek fails); a success returns the handle at offset 0 over exactly
\* B, and an inequality is the integrity error naming the package.
C2_ChecksumEnforced ==
    \A p \in Procs :
        Downloading(p) /\ Done(p) /\ proc[p].fetched.some =>
            LET B == proc[p].fetched.data
                match == HexDigest(B) = proc[p].checksum IN
            /\ proc[p].result = Ok =>
                 /\ match /\ proc[p].pos = 0 /\ Data(p) = B
                 /\ proc[p].lock = "exclusive"
            /\ proc[p].result.kind = "checksum" =>
                 ~match /\ proc[p].result.about = Display(proc[p].pkg)
            /\ proc[p].raised \cap {"status", "read", "seek"} = {} =>
                 /\ match <=> proc[p].result = Ok
                 /\ ~match <=> proc[p].result.kind = "checksum"

\* A fresh fetch of non-empty bytes that verified and was rewound
C2_Witness ==
    \E p \in Procs :
        /\ Downloading(p) /\ Done(p) /\ proc[p].fetched.some
        /\ Len(proc[p].fetched.data) = MaxLen
        /\ proc[p].result = Ok /\ proc[p].pos = 0
        /\ proc[p].fed = proc[p].fetched.data

\* C3: whenever download(pkg, c) returns success, the content of the
\* returned file has digest c.
C3_ReturnedVerified ==
    \A p \in Procs :
        Downloading(p) /\ Done(p) /\ proc[p].result = Ok =>
            HexDigest(Data(p)) = proc[p].checksum

\* C4: a download called on a zero-length slot that is still empty at the
\* read-write open does not return early at either length check, and
\* (unless the "Retrieving" status fails) invokes the fetcher for the
\* package's path.
C4_EmptyIsAbsent ==
    \A p \in Procs :
        Downloading(p) /\ proc[p].start = "empty" =>
            /\ proc[p].probe = "empty" => proc[p].lock # "shared"
            /\ proc[p].recheck = "empty" /\ Done(p) =>
                 /\ ~(proc[p].result = Ok /\ ~Called(p, "ipget"))
                 /\ "status" \in proc[p].raised
                    \/ \E i \in DOMAIN proc[p].calls :
                         proc[p].calls[i] =
                            Ev("ipget", "ipfs_path/" \o SlotOf(p),
                                        "local_root/" \o SlotOf(p))

\* A call that found the slot empty at both checks and ran the fetcher
C4_Witness ==
    \E p \in Procs :
        /\ Downloading(p) /\ proc[p].start = "empty"
        /\ proc[p].probe = "empty" /\ proc[p].recheck = "empty"
        /\ Called(p, "ipget") /\ Done(p)

\* C5: when the probe saw the slot absent or empty and the slot is
\* non-empty once the read-write open has returned, the call returns the
\* handle at the re-check and does not invoke the fetcher.
C5_RaceTolerated ==
    \A p \in Procs :
        /\ Downloading(p)
        /\ proc[p].probe \in {"absent", "empty"}
        /\ proc[p].recheck = "nonempty"
        => /\ ~Called(p, "ipget")
           /\ NoDigest(p)
           /\ Done(p) /\ proc[p].result = Ok /\ proc[p].lock = "exclusive"

\* The other process populated the slot between the probe and the re-check
C5_Witness ==
    \E p \in Procs :
        /\ Downloading(p) /\ proc[p].start \in {"absent", "empty"}
        /\ proc[p].probe \in {"absent", "empty"}
        /\ proc[p].recheck = "nonempty"
        /\ Done(p) /\ proc[p].result = Ok

\* C6: no call to download returns success with a handle to a zero-length
\* file.
C6_NeverEmptyArtifact ==
    \A p \in Procs :
        Downloading(p) /\ Done(p) /\ proc[p].result = Ok => Len(Data(p)) > 0

\* The error kinds a failed primitive of download turns into
ErrorKinds == {"metadata", "open_rw", "status", "read", "seek", "checksum"}

\* The calls of p has invoked the fetcher at most once
AtMostOneIpget(p) ==
    \A i, j \in DOMAIN proc[p].calls :
        proc[p].calls[i].op = "ipget" /\ proc[p].calls[j].op = "ipget" => i = j

\* C7 as stated: every error that arises during download, the failure of
\* the read-only open included, is the result returned to the caller, and
\* the fetcher is invoked at most once per call.
C7_AllErrorsReturned ==
    \A p \in Procs :
        Downloading(p) =>
            /\ AtMostOneIpget(p)
            /\ Done(p) =>
                 \A e \in proc[p].raised \ {"spawn"} : proc[p].result.kind = e

\* C7 as amended: a failure of the read-only open is not returned (the call
\* goes on to the read-write open); every other error that arises (either
\* metadata query, the read-write open, a status message, a read, the seek,
\* a digest mismatch) is the call's result, no call that met one returns
\* success, and the fetcher is invoked at most once per call.
C7_ErrorsReturnedButProbe ==
    \A p \in Procs :
        Downloading(p) =>
            /\ AtMostOneIpget(p)
            /\ proc[p].raised \subseteq ErrorKinds \cup {"open_ro", "spawn"}
            /\ proc[p].raised \ {"open_ro"} # {} => Done(p) /\ proc[p].result # Ok
            /\ Done(p) =>
                 /\ \A e \in proc[p].raised \ {"open_ro", "spawn"} :
                       proc[p].result.kind = e
                 /\ proc[p].result.kind \in ErrorKinds =>
                       proc[p].result.kind \in proc[p].raised
                          /\ proc[p].lock = "none"

\* The read-only open failed on an existing file, the call went on, ran the
\* fetcher once and returned the error of a later primitive
C7_Witness ==
    \E p \in Procs :
        /\ Downloading(p) /\ Done(p)
        /\ proc[p].probe = "error"
        /\ proc[p].raised = {"open_ro", "seek"}
        /\ proc[p].result.kind = "seek"
        /\ Called(p, "ipget")

\* C8: a call to update_index invokes the fetcher exactly once, for
\* ipfs_path/index into local_root/index, as its first step, and calls the
\* local registry's update_index only after it, whatever the state of the
\* local index when the call was made.
C8_IndexDelegation ==
    \A p \in Procs :
        proc[p].op = "update_index" =>
            LET c == proc[p].calls
                ipget == Ev("ipget", "ipfs_path/index", "local_root/index") IN
            /\ AtMostOneIpget(p)
            /\ proc[p].pc \in {"ui_wait", "ui_local"} => c = <<ipget>>
            /\ Called(p, "local.update_index") =>
                 c = <<ipget, Ev("local.update_index", "", "")>>
            /\ Done(p) => Len(c) >= 1 /\ c[1] = ipget
            /\ Done(p) /\ proc[p].raised \cap {"spawn"} = {} =>
                 Called(p, "local.update_index")

\* update_index ran the fetcher although the index was already well-formed
C8_Witness ==
    \E p \in Procs :
        /\ proc[p].op = "update_index" /\ Done(p)
        /\ proc[p].idx0 = "wellformed"
        /\ Len(proc[p].calls) = 2

\* A step in which process p calls config()
ConfigCall(p) == proc[p].pc = "idle" /\ proc'[p].op = "config"

\* C9: config() can be called in every state, returns Ok(None) at once,
\* invokes no primitive (no fetcher, no cache store or local registry
\* operation) and leaves the cache, the index, the locks and every other
\* process unchanged.
C9_ConfigAbsent ==
    /\ [](\A p \in Procs : proc[p].pc = "idle" => ENABLED Config(p))
    /\ [][\A p \in Procs :
            ConfigCall(p) =>
                /\ proc'[p].pc = "done"
                /\ proc'[p].result = [kind |-> "ok_none", about |-> ""]
                /\ proc'[p].calls = <<>> /\ proc'[p].lock = "none"
                /\ proc'[p].raised = {}
                /\ UNCHANGED <<file, index, corrupt>>
                /\ \A q \in Procs \ {p} : proc'[q] = proc[q]]_vars

\* config() has returned while the other process holds a populated slot
C9_Witness ==
    \E p, q \in Procs :
        /\ proc[p].op = "config" /\ Done(p)
        /\ proc[p].result.kind = "ok_none"
        /\ proc[q].lock = "exclusive" /\ Len(Data(q)) > 0

\* C10: after a download failed its checksum on non-empty bytes left by the
\* fetcher, the slot holds exactly those bytes from then on, and every
\* download called later never invokes the fetcher, never computes a digest
\* and (unless a metadata query or the read-write open fails) returns
\* success over those bytes, whatever its checksum.
C10_CorruptStays ==
    /\ \A p \in Procs :
          /\ Downloading(p) /\ Done(p) /\ proc[p].result.kind = "checksum"
          /\ proc[p].fetched.some /\ Len(proc[p].fetched.data) > 0
          => /\ Data(p) = proc[p].fetched.data
             /\ corrupt[SlotOf(p)] = Some(proc[p].fetched.data)
    /\ \A s \in Slots : corrupt[s].some => file[s] = [exists |-> TRUE, data |-> corrupt[s].data]
    /\ \A p \in Procs :
          Downloading(p) /\ proc[p].late =>
              /\ ~Called(p, "ipget")
              /\ NoDigest(p)
              /\ Done(p) /\ NoFault(p) =>
                   /\ proc[p].result = Ok /\ proc[p].lock # "none"
                   /\ Data(p) = corrupt[SlotOf(p)].data

\* A later download of the corrupt slot succeeded on the unverified bytes
C10_Witness ==
    \E p \in Procs :
        /\ Downloading(p) /\ proc[p].late /\ Done(p)
        /\ proc[p].result = Ok
        /\ Data(p) = corrupt[SlotOf(p)].data
        /\ HexDigest(Data(p)) # proc[p].checksum

\* C11: after a fetch that failed and left a zero-length or partial file in
\* the slot (process q's call ran ipget, ipget reported a failure, and the
\* call failed its checksum), the next download of the package (process p, called on the
\* slot as q's fetch left it) invokes the fetcher again.
C11_FailedFetchRetried ==
    \A p, q \in Procs :
        /\ p # q
        /\ Downloading(q) /\ Done(q) /\ proc[q].result.kind = "checksum"
        /\ proc[q].fetched.some /\ proc[q].exit = "failure"
        /\ Downloading(p) /\ SlotOf(p) = SlotOf(q)
        /\ proc[p].start = (IF proc[q].fetched.data = <<>> THEN "empty" ELSE "nonempty")
        /\ Done(p) /\ NoFault(p)
        => Called(p, "ipget")

\* The result of a download that ran the fetcher, from the bytes the
\* fetcher left, the checksum and the primitives that failed afterwards
Outcome(p) ==
    LET me == proc[p] IN
    IF "status" \in me.raised THEN Err("status", "Unpacking")
    ELSE IF "read" \in me.raised THEN Err("read", SlotOf(p))
    ELSE IF HexDigest(me.fetched.data) # me.checksum
         THEN Err("checksum", Display(me.pkg))
    ELSE IF "seek" \in me.raised THEN Err("seek", SlotOf(p))
    ELSE Ok

\* C12: the result of a download that ran the fetcher, the content behind a
\* returned handle and the slot content the call leaves (until a later
\* call fetches into a slot left empty) are determined by the bytes the
\* fetcher left, the checksum and the later I/O failures alone: two runs
\* that agree on these end alike whatever exit status ipget reported.
C12_ExitStatusIgnored ==
    \A p \in Procs :
        Downloading(p) /\ proc[p].fetched.some =>
            /\ proc[p].exit \in ExitStatuses
            /\ proc[p].pc # "done" => proc[p].result = NoResult
            /\ Done(p) =>
                 /\ proc[p].result = Outcome(p)
                 /\ Len(proc[p].fetched.data) > 0 \/ proc[p].lock # "none" =>
                        Data(p) = proc[p].fetched.data
                 /\ proc[p].lock = (IF Outcome(p) = Ok THEN "exclusive" ELSE "none")

\* ipget reported a failure and the download succeeded on what it left
C12_Witness ==
    \E p \in Procs :
        /\ Downloading(p) /\ Done(p) /\ proc[p].fetched.some
        /\ proc[p].exit = "failure"
        /\ Len(proc[p].fetched.data) > 0
        /\ proc[p].result = Ok

\* Slot s is being fetched into, or a call is on its way to fetch into it
FetchPending(s) ==
    \E p \in Procs :
        /\ Downloading(p) /\ SlotOf(p) = s
        /\ proc[p].pc \in {"status_retrieving", "ipget", "ipget_wait"}

\* C13: once a slot's file is non-empty, no step of any download call of
\* any process changes or truncates it, and no call invokes the fetcher for
\* it or is on its way to.
C13_PopulatedAbsorbing ==
    /\ [](\A s \in Slots : Len(file[s].data) > 0 => ~FetchPending(s))
    /\ [][\A s \in Slots :
            Len(file[s].data) > 0 =>
                /\ file'[s] = file[s]
                /\ \A p \in Procs :
                      (Downloading(p) /\ SlotOf(p) = s)' =>
                          ~(Called(p, "ipget")' /\ ~Called(p, "ipget"))]_vars

\* Both processes have gone through open_rw on a populated slot, one of
\* them after its read-only open failed, and the content is still in place
C13_Witness ==
    \E p, q \in Procs :
        /\ p # q /\ Downloading(p) /\ Downloading(q)
        /\ Done(q) /\ proc[q].fetched.some /\ Len(proc[q].fetched.data) > 0
        /\ Done(p) /\ proc[p].start = "nonempty" /\ Called(p, "open_rw")
        /\ proc[p].result = Ok
        /\ Data(p) = proc[q].fetched.data

\* The position in the calls of p of the first primitive o with argument a,
\* 0 if there is none
First(p, o, a) ==
    LET c == proc[p].calls
        hits == {i \in DOMAIN c : c[i].op = o /\ (a = "" \/ c[i].a = a)} IN
    IF hits = {} THEN 0 ELSE CHOOSE i \in hits : \A j \in hits : i <= j

\* C14: in a download, "Retrieving from IPFS" for the package is emitted
\* before ipget is invoked; "Unpacking" is emitted after ipget has returned
\* and before the first read; a call that returns at either length check
\* emits no status; and a call whose "Retrieving" message fails ends with
\* that error without invoking ipget.
C14_StatusOrdering ==
    \A p \in Procs :
        Downloading(p) =>
            LET retr == First(p, "status", "Retrieving from IPFS")
                unpk == First(p, "status", "Unpacking")
                iget == First(p, "ipget", "")
                read == First(p, "read", "")
                c == proc[p].calls IN
            /\ iget > 0 => 0 < retr /\ retr < iget
                           /\ c[retr].b = Display(proc[p].pkg)
            /\ unpk > 0 => iget > 0 /\ iget < unpk /\ proc[p].fetched.some
                           /\ c[unpk].b = Display(proc[p].pkg)
            /\ read > 0 => 0 < unpk /\ unpk < read
            /\ proc[p].pc \in {"read", "finish", "seek"} => unpk > 0
            /\ proc[p].fed # <<>> => read > 0
            /\ Done(p) /\ proc[p].result = Ok /\ ~proc[p].fetched.some =>
                 ~Called(p, "status")
            /\ "status" \in proc[p].raised /\ unpk = 0 =>
                 /\ iget = 0 /\ Done(p)
                 /\ proc[p].result = Err("status", "Retrieving from IPFS")

\* A fetch that emitted both messages around ipget and read the file
C14_Witness ==
    \E p \in Procs :
        /\ Downloading(p) /\ Done(p) /\ proc[p].result = Ok
        /\ proc[p].fetched.some /\ Len(proc[p].fetched.data) > 0
        /\ First(p, "status", "Retrieving from IPFS") > 0
        /\ First(p, "status", "Unpacking") > First(p, "ipget", "")
        /\ First(p, "read", "") > First(p, "status", "Unpacking")

\* The number of reads the call of p has made
Reads(p) == Cardinality({i \in DOMAIN proc[p].calls : proc[p].calls[i].op = "read"})

\* C15: in the read loop the bytes fed to the digest are exactly the bytes
\* of the file from offset 0 to the read position, in order and once each;
\* the loop ends only at end of file, after a read of 0 bytes, and the
\* digest compared is then the digest of the whole file, for every file
\* length and every pattern of short reads.
C15_DigestByteExact ==
    \A p \in Procs :
        Downloading(p) /\ proc[p].fetched.some =>
            LET me == proc[p] IN
            /\ me.pc = "read" =>
                 /\ me.pos <= Len(Data(p))
                 /\ me.fed = SubSeq(Data(p), 1, me.pos)
                 /\ me.state = Sha256Update(Sha256New, me.fed)
                 /\ Len(me.fed) <= Reads(p) * BufSize
            /\ me.pc \in {"finish", "seek"} =>
                 /\ me.pos = Len(Data(p)) /\ me.fed = Data(p)
                 /\ me.state = Sha256Update(Sha256New, Data(p))
                 /\ ToHex(Sha256Finish(me.state)) = HexDigest(Data(p))
                 /\ Reads(p) >= 1 /\ Len(me.fed) <= (Reads(p) - 1) * BufSize
            /\ Done(p) /\ (me.result = Ok \/ me.result.kind \in {"checksum", "seek"}) =>
                 /\ me.fed = me.fetched.data
                 /\ me.state = Sha256Update(Sha256New, me.fetched.data)

\* A file one byte longer than the buffer, read one byte at a time to the
\* end of the file
C15_Witness ==
    \E p \in Procs :
        /\ Downloading(p) /\ proc[p].pc = "finish"
        /\ Len(Data(p)) = BufSize + 1
        /\ Reads(p) = Len(Data(p)) + 1
        /\ proc[p].fed = Data(p)

\* The steps of download from the "Retrieving" status to the final seek
FetchPath == {"status_retrieving", "ipget", "ipget_wait", "status_unpacking",
              "read", "finish", "seek"}

\* C16: a process invokes the fetcher and reads the slot for verification
\* only while it holds the slot's exclusive lock; while it holds it no other
\* process holds a lock or a returned handle on the slot, so no two fetcher
\* runs on a slot overlap and no process inspects, reads or returns the
\* slot while a fetcher is writing it.
C16_FetchExclusive ==
    \A p \in Procs :
        Downloading(p) =>
            /\ proc[p].pc \in FetchPath => proc[p].lock = "exclusive"
            /\ proc[p].lock = "exclusive" =>
                 \A q \in Procs \ {p} :
                     Downloading(q) /\ SlotOf(q) = SlotOf(p) =>
                         /\ proc[q].lock = "none"
                         /\ proc[q].pc \notin FetchPath \cup {"meta_ro", "meta_rw"}
                         /\ ~(Done(q) /\ proc[q].result = Ok)

\* One process waits for the lock while the other's fetcher is running
C16_Witness ==
    \E p, q \in Procs :
        /\ proc[p].pc = "ipget_wait" /\ proc[p].lock = "exclusive"
        /\ proc[q].pc \in {"lock_ro", "lock_rw"} /\ SlotOf(q) = SlotOf(p)

LocalResult == IF index = "wellformed" THEN Ok ELSE Err("local_index", "index")

\* C18: once ipget has been launched, update_index goes on to the local
\* registry's update_index whatever ipget reports or writes, and returns
\* exactly what that routine returns: its error, or success when it
\* succeeds.
C18_LocalResultReturned ==
    /\ [](\A p \in Procs :
            proc[p].op = "update_index" =>
                /\ proc[p].raised \subseteq {"spawn", "local_index"}
                /\ Done(p) /\ "spawn" \notin proc[p].raised =>
                     /\ Called(p, "local.update_index")
                     /\ proc[p].result \in {Ok, Err("local_index", "index")}
                     /\ proc[p].result = Ok <=> proc[p].raised = {})
    /\ [][\A p \in Procs :
            /\ proc[p].pc = "ui_wait" /\ proc'[p] # proc[p] =>
                 proc'[p].pc = "ui_local" /\ proc'[p].result = NoResult
            /\ proc[p].pc = "ui_local" /\ proc'[p] # proc[p] =>
                 proc'[p].pc = "done" /\ proc'[p].result = LocalResult]_vars

\* ipget reported a failure and update_index returned the local success
C18_Witness ==
    \E p \in Procs :
        /\ proc[p].op = "update_index" /\ Done(p)
        /\ proc[p].exit = "failure"
        /\ proc[p].result = Ok

====
